---------------------------- MODULE Spec2Model ----------------------------
(***************************************************************************)
(* A model of chatgpt_client.py: GPTClient.generate_response and the       *)
(* helpers it calls (validate_model, _create_request_payload,              *)
(* _handle_api_error, _poll_task_status), run against a remote service     *)
(* whose replies are chosen nondeterministically.                          *)
(*                                                                         *)
(* Conventions.  An optional value (Python's None or a value) is a         *)
(* sequence of length 0 or 1: None == <<>>, Some(v) == <<v>>.  A text      *)
(* built by an f-string is the sequence of its parts.  An HTTP exchange    *)
(* is a record [error, status_code, body]: error is the transport-level    *)
(* exception requests raised (None when a response arrived).  A response   *)
(* body is a record [json, message, id, status, gpt]: json says whether    *)
(* the body parses as a JSON object, as another JSON value, or not at all; *)
(* the other fields are the keys of the object the code reads, each        *)
(* optional.                                                               *)
(***************************************************************************)
EXTENDS Integers, Sequences, FiniteSets, TLC

VARIABLES
    pc,         \* position of the call: Validating, Submitting, Polling, Done, Failed
    model,      \* the label passed to generate_response
    messages,   \* the message sequence passed to generate_response
    payload,    \* optional: the local `payload` of generate_response
    posts,      \* the exchanges of requests.post issued so far
    task_id,    \* optional: response.json().get("id") of the submission
    gets,       \* the exchanges of requests.get issued so far, with the id queried
    raised,     \* optional: the exception that reached the caller
    result,     \* optional: the value returned to the caller (itself an optional
                \* text, because the code can return None)
    self,       \* the GPTClient instance: base_url, timeout, available_models
    valid,      \* optional: the last validate_model invocation, [name, value]
    calls,      \* concurrent calls on the one instance: for each call, the
                \* record of its parameters, locals and outcome
    tasks       \* the remote service: the state of each task it has created

\* the variables of the concurrent calls, which the single call leaves alone
conc == <<calls, tasks>>

vars == <<pc, model, messages, payload, posts, task_id, gets, raised, result,
          self, valid, calls, tasks>>

-----------------------------------------------------------------------------
(* Bounds of the model.                                                    *)

MaxMsgs == 2
MaxPolls == 3

-----------------------------------------------------------------------------
(* Optional values.                                                        *)

None == <<>>
Some(v) == <<v>>
IsNone(o) == o = <<>>
Val(o) == o[1]

-----------------------------------------------------------------------------
(* GPTClient.__init__: the label -> provider identifier table, in          *)
(* insertion order (the order dict.keys() enumerates).                     *)

ModelTable ==
    << <<"GPT-4", "gpt-4">>,
       <<"GPT-4-0613", "gpt-4-0613">>,
       <<"GPT-4-32k", "gpt-4-32k">>,
       <<"GPT-4-0314", "gpt-4-0314">>,
       <<"GPT-4-32k-0314", "gpt-4-32k-0314">>,
       <<"GPT-3.5-Turbo", "gpt-3.5-turbo">>,
       <<"GPT-3.5-Turbo-16k", "gpt-3.5-turbo-16k">>,
       <<"GPT-3.5-Turbo-0613", "gpt-3.5-turbo-0613">>,
       <<"GPT-3.5-Turbo-16k-0613", "gpt-3.5-turbo-16k-0613">>,
       <<"GPT-3.5-Turbo-0301", "gpt-3.5-turbo-0301">>,
       <<"Text-Davinci-003", "text-davinci-003">>,
       <<"Text-Davinci-002", "text-davinci-002">>,
       <<"Code-Davinci-002", "code-davinci-002">>,
       <<"GPT-3", "gpt-3">>,
       <<"Text-Curie-001", "text-curie-001">>,
       <<"Text-Babbage-001", "text-babbage-001">>,
       <<"Text-Ada-001", "text-ada-001">>,
       <<"Davinci", "davinci">>,
       <<"Curie", "curie">>,
       <<"Babbage", "babbage">>,
       <<"Ada", "ada">>,
       <<"Babbage-002", "babbage-002">>,
       <<"Davinci-002", "davinci-002">>,
       <<"GPT-4o", "gpt-4o">>,
       <<"ChatGPT", "chatgpt">> >>

\* timeout: int = 30
DefaultTimeout == 30

\* GPTClient.__init__(timeout): the attributes of the new instance
GPTClient(timeout) ==
    [base_url |-> "https://nexra.aryahcr.cc/api/chat",
     timeout |-> timeout,
     available_models |-> ModelTable]

\* self.available_models.keys(), as the sequence dict enumeration yields
available_models_keys ==
    [i \in 1..Len(self.available_models) |-> self.available_models[i][1]]

\* the set of keys: `label in self.available_models`
available_models_domain ==
    {self.available_models[i][1] : i \in 1..Len(self.available_models)}

\* self.available_models[label], for a label that is a key
available_models(label) ==
    self.available_models[CHOOSE i \in 1..Len(self.available_models) :
                              self.available_models[i][1] = label][2]

\* (a variant that looks the name up among the provider identifiers)
validate_model_values(model_name) ==
    model_name \in {self.available_models[i][2] : i \in 1..Len(self.available_models)}

\* GPTClient.validate_model
validate_model(model_name) == model_name \in available_models_domain

-----------------------------------------------------------------------------
(* Exceptions.  type is the Python class; status_code, message and         *)
(* description are APIError's attributes (0 and "" for the other classes); *)
(* text is str(e), as the parts of the f-string that built it.             *)

Exc(type, status_code, message, description, text) ==
    [type |-> type, status_code |-> status_code, message |-> message,
     description |-> description, text |-> text]

\* class ChatGPTError(Exception) and its subclasses
ChatGPTErrorTypes == {"ChatGPTError", "APIError", "ModelNotFoundError"}

\* the classes `except requests.exceptions.RequestException` catches
RequestExceptionTypes ==
    {"requests.Timeout", "requests.ConnectionError", "requests.JSONDecodeError"}

\* str(status_code) for the status codes of the model
CodeStr(code) ==
    CASE code = 200 -> "200" [] code = 201 -> "201" [] code = 400 -> "400"
      [] code = 404 -> "404" [] code = 429 -> "429" [] code = 500 -> "500"
      [] OTHER -> "?"

\* APIError.__init__
APIError(status_code, message, description) ==
    Exc("APIError", status_code, message, description,
        <<"Status Code: ", CodeStr(status_code), ", Error: ", message,
          ", Description: ", description>>)

\* sep.join(items)
RECURSIVE join(_, _)
join(sep, items) ==
    IF Len(items) = 0 THEN <<>>
    ELSE IF Len(items) = 1 THEN <<items[1]>>
    ELSE <<items[1], sep>> \o join(sep, Tail(items))

\* (a variant whose message names the rejected label only)
ModelNotFoundError_bare(label) ==
    Exc("ModelNotFoundError", 0, "", "", <<"Invalid model: ", label>>)

\* ModelNotFoundError(f"Invalid model: {model}. Available models: {', '.join(keys)}")
ModelNotFoundError(label) ==
    Exc("ModelNotFoundError", 0, "", "",
        <<"Invalid model: ", label, ". Available models: ">>
            \o join(", ", available_models_keys))

\* ChatGPTError(f"Request failed: {str(e)}")
RequestFailed(e) ==
    Exc("ChatGPTError", 0, "", "", <<"Request failed: ">> \o e.text)

\* ChatGPTError(f"Task failed with status: {task_response.status}");
\* str() of an Enum member is "TaskStatus.<NAME>"
TaskFailed(status) ==
    Exc("ChatGPTError", 0, "", "",
        <<"Task failed with status: ", "TaskStatus.", status>>)

\* the exceptions the client code does not construct itself: the transport
\* errors of requests, and the errors of the Python runtime
OtherError(type, detail) == Exc(type, 0, "", "", <<detail>>)

\* the exception requests.post / requests.get raises on a transport-level
\* failure, with the text str(e) gives
transport_error(type) ==
    OtherError(type, IF type = "requests.Timeout" THEN "Read timed out."
                     ELSE "Connection refused")

\* (a variant without the except clause: every exception propagates)
except_nothing(e) == e

\* `except requests.exceptions.RequestException as e: raise ChatGPTError(...)`
\* around the body of generate_response: what reaches the caller when e is
\* raised inside the try block
except_RequestException(e) ==
    IF e.type \in RequestExceptionTypes THEN RequestFailed(e) ELSE e

-----------------------------------------------------------------------------
(* Messages and the request payload.                                       *)

Roles == {"system", "user"}
Contents == {"You are a helpful assistant.", "Hi"}
Messages == [role : Roles, content : Contents]

\* the message sequences a caller can pass (up to MaxMsgs long), each
\* message the system prompt or the user text of main()
MessageSeqs ==
    {s \in UNION {[1..n -> Messages] : n \in 0..MaxMsgs} :
        \A i \in 1..Len(s) :
            s[i].content = (IF s[i].role = "system"
                            THEN "You are a helpful assistant." ELSE "Hi")}

\* (a variant that leaves the system messages out of the payload)
_create_request_payload_nosystem(msgs, mdl) ==
    [messages |-> SelectSeq([i \in 1..Len(msgs) |->
                                [role |-> msgs[i].role, content |-> msgs[i].content]],
                            LAMBDA m : m.role # "system"),
     model |-> mdl,
     markdown |-> FALSE]

\* GPTClient._create_request_payload
_create_request_payload(msgs, mdl) ==
    [messages |-> [i \in 1..Len(msgs) |->
                      [role |-> msgs[i].role, content |-> msgs[i].content]],
     model |-> mdl,
     markdown |-> FALSE]

\* (a variant that prepends a system prompt to the caller's list in place)
messages_after_payload_insert(msgs) ==
    <<[role |-> "system", content |-> "You are a helpful assistant."]>> \o msgs

\* _create_request_payload, line 128: the comprehension reads the caller's
\* list and builds a new one; the caller's list after the call
messages_after_payload(msgs) == msgs

\* (a variant that passes the display label through)
build_payload_label(msgs, label) == _create_request_payload(msgs, label)

\* generate_response, line 198: the payload is built with the identifier the
\* table maps the label to
build_payload(msgs, label) == _create_request_payload(msgs, available_models(label))

-----------------------------------------------------------------------------
(* The remote service: what an HTTP exchange can produce.                  *)

StatusCodes == {200, 201, 400, 404, 429, 500}
ErrorTexts == {"quota exceeded"}
TaskIds == {"t1", "t2"}
Texts == {"Hello!", "Hi there"}
\* the values of the "status" field: the two the code compares with, the
\* names of the other TaskStatus members in lower case, and strings the
\* service could send that are none of these
StatusStrings ==
    {"completed", "pending", "error", "not_found", "not-found", "COMPLETED", "unknown"}

Opt(S) == {None} \cup {Some(v) : v \in S}

Body(json, message, id, status, gpt) ==
    [json |-> json, message |-> message, id |-> id, status |-> status, gpt |-> gpt]

\* a body that is not JSON (an HTML error page, an empty body), and a body
\* that is JSON but not an object (an array, a string)
NotJSON == Body("invalid", None, None, None, None)
NotObject == Body("value", None, None, None, None)

\* bodies of submission responses: the keys read are "message" and "id"
PostBodies ==
    {NotJSON, NotObject}
        \cup {Body("object", m, i, None, None) : m \in Opt(ErrorTexts), i \in Opt(TaskIds)}

\* bodies of status responses: the keys read are "status" and "gpt" (an
\* error body may carry "message")
GetBodies ==
    {NotJSON, NotObject}
        \cup {Body("object", None, None, Some("completed"), g) : g \in Opt(Texts)}
        \cup {Body("object", None, None, s, None) : s \in Opt(StatusStrings \ {"completed"})}
        \cup {Body("object", m, None, None, None) : m \in Opt(ErrorTexts)}

Exchange(error, status_code, body) ==
    [error |-> error, status_code |-> status_code, body |-> body]

\* requests.post(..., timeout=self.timeout): a response, or a transport error
PostExchanges ==
    {Exchange(Some(c), 0, NotJSON) : c \in {"requests.Timeout", "requests.ConnectionError"}}
        \cup {Exchange(None, c, b) : c \in StatusCodes, b \in PostBodies}

\* requests.get(url), called without a timeout: a response, or a connection error
GetExchanges ==
    {Exchange(Some("requests.ConnectionError"), 0, NotJSON)}
        \cup {Exchange(None, c, b) : c \in StatusCodes, b \in GetBodies}

\* f"{self.base_url}/gpt"
submit_url == <<self.base_url, "/gpt">>

\* f"{self.base_url}/task/{task_id}"; str(None) is "None"
task_url(id) == <<self.base_url, "/task/", IF IsNone(id) THEN "None" ELSE Val(id)>>

-----------------------------------------------------------------------------
(* Reading a response.                                                     *)

\* error_mappings.get(status_code, "Unexpected Error")
error_description(status_code) ==
    CASE status_code = 429 -> "Too Many Requests"
      [] status_code = 400 -> "Bad Request"
      [] status_code = 500 -> "Internal Server Error"
      [] OTHER -> "Unexpected Error"

\* response.json() on a body that is not JSON.  The exception class depends
\* on the installed requests (none is pinned): requests.JSONDecodeError, a
\* RequestException, from 2.27 on; a plain ValueError subclass before.
json_error(modern) ==
    IF modern THEN OtherError("requests.JSONDecodeError", "Expecting value")
    ELSE OtherError("ValueError", "Expecting value")

\* <value>.get(...) on a JSON value that is not an object
get_error == OtherError("AttributeError", "object has no attribute 'get'")

\* the exception response.json().get(...) raises on this body, if any
json_get_error(body, modern) ==
    IF body.json = "invalid" THEN Some(json_error(modern))
    ELSE IF body.json # "object" THEN Some(get_error)
    ELSE None

\* (a variant that ignores the default)
get_message_nodefault(body, default) ==
    IF IsNone(body.message) THEN "" ELSE Val(body.message)

\* dict.get(key, default) for the "message" key
get_message(body, default) ==
    IF IsNone(body.message) THEN default ELSE Val(body.message)

\* GPTClient._handle_api_error: the exception it raises
_handle_api_error(response, modern) ==
    IF ~IsNone(json_get_error(response.body, modern))
    THEN Val(json_get_error(response.body, modern))
    ELSE APIError(response.status_code,
                  get_message(response.body, "Unknown error"),
                  error_description(response.status_code))

\* class TaskStatus(Enum): the member names
TaskStatus == {"PENDING", "COMPLETED", "ERROR", "NOT_FOUND"}

\* str.upper() on the status strings of the model
upper(s) ==
    CASE s = "completed" -> "COMPLETED"
      [] s = "pending" -> "PENDING"
      [] s = "error" -> "ERROR"
      [] s = "not_found" -> "NOT_FOUND"
      [] s = "not-found" -> "NOT-FOUND"
      [] s = "COMPLETED" -> "COMPLETED"
      [] s = "unknown" -> "UNKNOWN"

\* @dataclass TaskResponse
TaskResponse(id, status, response) ==
    [id |-> id, status |-> status, response |-> response]

-----------------------------------------------------------------------------
(* The outcome of a step of generate_response: where the call goes next,   *)
(* and what reaches the caller.                                            *)

Outcome(next, exc, value, id) ==
    [pc |-> next, raised |-> exc, result |-> value, task_id |-> id]

Raise(e) == Outcome("Failed", Some(e), None, None)
Return(v) == Outcome("Done", None, Some(v), None)
StartPolling(id) == Outcome("Polling", None, None, id)
KeepPolling == Outcome("Polling", None, None, None)

\* generate_response, lines 194-198: the label check, and the lookup
\* self.available_models[model], which raises KeyError for a missing key
validate_outcome(label) ==
    IF ~validate_model(label) THEN Raise(ModelNotFoundError(label))
    ELSE IF label \notin available_models_domain THEN Raise(OtherError("KeyError", label))
    ELSE Outcome("Submitting", None, None, None)

\* (a variant that submits again after a transport failure)
post_outcome_retry(x, modern) ==
    IF ~IsNone(x.error)
    THEN Outcome("Submitting", None, None, None)
    ELSE IF x.status_code # 200
    THEN Raise(except_RequestException(_handle_api_error(x, modern)))
    ELSE IF ~IsNone(json_get_error(x.body, modern))
    THEN Raise(except_RequestException(Val(json_get_error(x.body, modern))))
    ELSE StartPolling(x.body.id)

\* (a variant without the status check of line 208)
post_outcome_unchecked(x, modern) ==
    IF ~IsNone(x.error)
    THEN Raise(except_RequestException(transport_error(Val(x.error))))
    ELSE IF ~IsNone(json_get_error(x.body, modern))
    THEN Raise(except_RequestException(Val(json_get_error(x.body, modern))))
    ELSE StartPolling(x.body.id)

\* generate_response, lines 200-211 and 219-220: the submission POST and
\* what the code does with the exchange x
post_outcome(x, modern) ==
    IF ~IsNone(x.error)
    THEN Raise(except_RequestException(transport_error(Val(x.error))))
    ELSE IF x.status_code # 200
    THEN Raise(except_RequestException(_handle_api_error(x, modern)))
    ELSE IF ~IsNone(json_get_error(x.body, modern))
    THEN Raise(except_RequestException(Val(json_get_error(x.body, modern))))
    ELSE StartPolling(x.body.id)

\* (a variant that returns the response field whatever the status)
finish_any(task_response) == Return(task_response.response)

\* generate_response, lines 214-217
finish(task_response) ==
    IF task_response.status = "COMPLETED" THEN Return(task_response.response)
    ELSE Raise(TaskFailed(task_response.status))

\* (a variant without the `elif status == "pending": continue` branch)
status_outcome_no_continue(id, data) ==
    IF data.status = Some("completed")
    THEN finish(TaskResponse(id, "COMPLETED", data.gpt))
    ELSE IF IsNone(data.status)
    THEN Raise(OtherError("AttributeError", "'NoneType' object has no attribute 'upper'"))
    ELSE IF upper(Val(data.status)) \in TaskStatus
    THEN finish(TaskResponse(id, upper(Val(data.status)), None))
    ELSE Raise(OtherError("KeyError", upper(Val(data.status))))

\* _poll_task_status, lines 169-177, on the parsed body of a 200 response,
\* followed by lines 214-217 when the loop returns
status_outcome(id, data) ==
    IF data.status = Some("completed")
    THEN finish(TaskResponse(id, "COMPLETED", data.gpt))
    ELSE IF data.status = Some("pending")
    THEN KeepPolling
    ELSE IF IsNone(data.status)
    THEN Raise(OtherError("AttributeError", "'NoneType' object has no attribute 'upper'"))
    ELSE IF upper(Val(data.status)) \in TaskStatus
    THEN finish(TaskResponse(id, upper(Val(data.status)), None))
    ELSE Raise(OtherError("KeyError", upper(Val(data.status))))

\* (a variant that applies the mapping of _handle_api_error)
polling_error_mapped(response) ==
    APIError(response.status_code, get_message(response.body, "Unknown error"),
             error_description(response.status_code))

\* the error _poll_task_status raises for a response that is not a 200
polling_error(response) ==
    APIError(response.status_code, "Task polling failed", "Failed to retrieve task status")

\* (a variant whose loop does not leave on "error": it polls again)
poll_outcome_spin(id, x, modern) ==
    IF ~IsNone(x.error)
    THEN Raise(except_RequestException(transport_error(Val(x.error))))
    ELSE IF x.status_code # 200
    THEN Raise(except_RequestException(polling_error(x)))
    ELSE IF ~IsNone(json_get_error(x.body, modern))
    THEN Raise(except_RequestException(Val(json_get_error(x.body, modern))))
    ELSE IF x.body.status = Some("error")
    THEN KeepPolling
    ELSE status_outcome(id, x.body)

\* one iteration of the loop of _poll_task_status (lines 164-177) on the
\* exchange x, inside the try block of generate_response (lines 212-220)
poll_outcome(id, x, modern) ==
    IF ~IsNone(x.error)
    THEN Raise(except_RequestException(transport_error(Val(x.error))))
    ELSE IF x.status_code # 200
    THEN Raise(except_RequestException(polling_error(x)))
    ELSE IF ~IsNone(json_get_error(x.body, modern))
    THEN Raise(except_RequestException(Val(json_get_error(x.body, modern))))
    ELSE status_outcome(id, x.body)

-----------------------------------------------------------------------------
(* The state machine of one call of generate_response.                     *)

Labels == {ModelTable[i][1] : i \in 1..Len(ModelTable)} \cup {"gpt-4", "GPT-5", ""}

Timeouts == {DefaultTimeout}

Init ==
    /\ self \in {GPTClient(t) : t \in Timeouts}
    /\ pc = "Validating"
    /\ model \in Labels
    /\ messages \in MessageSeqs
    /\ payload = None
    /\ posts = <<>>
    /\ task_id = None
    /\ gets = <<>>
    /\ raised = None
    /\ result = None
    /\ valid = None
    /\ calls = <<>>
    /\ tasks = <<>>

\* lines 194-198: validate the label, build headers and payload
Validate ==
    /\ pc = "Validating"
    /\ LET o == validate_outcome(model) IN
        /\ pc' = o.pc
        /\ raised' = o.raised
        /\ payload' = IF o.pc = "Submitting" THEN Some(build_payload(messages, model))
                      ELSE payload
    /\ valid' = Some([name |-> model, value |-> validate_model(model)])
    /\ messages' = messages_after_payload(messages)
    /\ UNCHANGED <<model, posts, task_id, gets, result, self, conc>>

\* lines 200-211: requests.post, the status check, and the task id.  The
\* data sent is json.dumps(payload), recorded as the document it denotes.
Submit ==
    /\ pc = "Submitting"
    /\ \E x \in PostExchanges, modern \in BOOLEAN :
        LET o == post_outcome(x, modern) IN
        /\ posts' = Append(posts, [url |-> submit_url, data |-> Val(payload),
                                   timeout |-> self.timeout, error |-> x.error,
                                   status_code |-> x.status_code, body |-> x.body])
        /\ pc' = o.pc
        /\ raised' = o.raised
        /\ task_id' = o.task_id
    /\ UNCHANGED <<model, messages, payload, gets, result, self, valid, conc>>

\* lines 163-177 and 214-217: one status query and what follows from it
Poll ==
    /\ pc = "Polling"
    /\ Len(gets) < MaxPolls
    /\ \E x \in GetExchanges, modern \in BOOLEAN :
        LET o == poll_outcome(task_id, x, modern) IN
        /\ gets' = Append(gets, [url |-> task_url(task_id), task |-> task_id,
                                 error |-> x.error,
                                 status_code |-> x.status_code, body |-> x.body])
        /\ pc' = o.pc
        /\ raised' = o.raised
        /\ result' = o.result
    /\ UNCHANGED <<model, messages, payload, posts, task_id, self, valid, conc>>

Next == Validate \/ Submit \/ Poll

Spec == Init /\ [][Next]_vars

-----------------------------------------------------------------------------
(* A caller that uses one client for a sequence of calls: validate_model   *)
(* and generate_response, one after the other.  pc = "Idle" is the caller  *)
(* between calls; it keeps its message list and the outcome of the last    *)
(* call (raised, result), while the locals of the call are gone.           *)

\* the labels the caller of this specification passes to generate_response
CallLabels == {"GPT-4", "ChatGPT", "gpt-4"}

InitCalls ==
    /\ self \in {GPTClient(t) : t \in Timeouts}
    /\ pc = "Idle"
    /\ model = "GPT-4"
    /\ messages = <<>>
    /\ payload = None
    /\ posts = <<>>
    /\ task_id = None
    /\ gets = <<>>
    /\ raised = None
    /\ result = None
    /\ valid = None
    /\ calls = <<>>
    /\ tasks = <<>>

\* client.validate_model(name), lines 104-114
ValidateModelCall(name) ==
    /\ pc = "Idle"
    /\ valid' = Some([name |-> name, value |-> validate_model(name)])
    /\ UNCHANGED <<pc, model, messages, payload, posts, task_id, gets, raised,
                   result, self, conc>>

\* client.generate_response(messages, model), line 179: entry
Call ==
    /\ pc = "Idle"
    /\ pc' = "Validating"
    /\ model' \in CallLabels
    /\ messages' \in MessageSeqs
    /\ raised' = None
    /\ result' = None
    /\ UNCHANGED <<payload, posts, task_id, gets, self, valid, conc>>

\* the return or the raise reaches the caller: the frame of the call is dropped
ReturnToCaller ==
    /\ pc \in {"Done", "Failed"}
    /\ pc' = "Idle"
    /\ payload' = None
    /\ posts' = <<>>
    /\ task_id' = None
    /\ gets' = <<>>
    /\ UNCHANGED <<model, messages, raised, result, self, valid, conc>>

NextCalls ==
    \/ \E name \in Labels : ValidateModelCall(name)
    \/ Call
    \/ ReturnToCaller
    \/ Validate
    \/ Submit
    \/ Poll

SpecCalls == InitCalls /\ [][NextCalls]_vars

-----------------------------------------------------------------------------
(* One call with the loop of _poll_task_status left unbounded, as in the   *)
(* code: gets keeps the last MaxPolls exchanges only.  Fairness: the       *)
(* program runs on (Validate), every network call returns (Submit), and    *)
(* the service eventually answers a status query with something other      *)
(* than a 200 "pending" reply.                                             *)

InitFair ==
    /\ self \in {GPTClient(t) : t \in Timeouts}
    /\ pc = "Validating"
    /\ model \in CallLabels
    /\ messages \in MessageSeqs
    /\ payload = None
    /\ posts = <<>>
    /\ task_id = None
    /\ gets = <<>>
    /\ raised = None
    /\ result = None
    /\ valid = None
    /\ calls = <<>>
    /\ tasks = <<>>

\* the exchanges that are not a 200 reply with status "pending"
NonPendingExchanges ==
    {x \in GetExchanges :
        ~(IsNone(x.error) /\ x.status_code = 200 /\ x.body.json = "object"
          /\ x.body.status = Some("pending"))}

\* lines 163-177 and 214-217: one status query answered by x
PollOn(x) ==
    /\ pc = "Polling"
    /\ \E modern \in BOOLEAN :
        LET o == poll_outcome(task_id, x, modern)
            g == [url |-> task_url(task_id), task |-> task_id, error |-> x.error,
                  status_code |-> x.status_code, body |-> x.body]
        IN
        /\ gets' = IF Len(gets) < MaxPolls THEN Append(gets, g)
                   ELSE Append(Tail(gets), g)
        /\ pc' = o.pc
        /\ raised' = o.raised
        /\ result' = o.result
    /\ UNCHANGED <<model, messages, payload, posts, task_id, self, valid, conc>>

PollPending == \E x \in GetExchanges \ NonPendingExchanges : PollOn(x)
PollNonPending == \E x \in NonPendingExchanges : PollOn(x)

NextFair == Validate \/ Submit \/ PollPending \/ PollNonPending

SpecFair ==
    /\ InitFair
    /\ [][NextFair]_vars
    /\ WF_vars(Validate)
    /\ WF_vars(Submit)
    /\ WF_vars(PollNonPending)

-----------------------------------------------------------------------------
(* Two threads call generate_response on the same instance at the same     *)
(* time.  Each call has its own parameters and locals (calls[c]); self is  *)
(* the one instance.  The remote service creates a task per accepted       *)
(* submission, under a fresh identifier; a task is pending until the       *)
(* service completes or fails it, and a status query is answered from the  *)
(* state of the task it names.                                             *)

CallIds == {1, 2}
ConcLabels == {"GPT-4", "ChatGPT", "gpt-4"}
ConcMessages ==
    {<<[role |-> "user", content |-> "Hi"]>>,
     <<[role |-> "system", content |-> "You are a helpful assistant."],
       [role |-> "user", content |-> "Hi"]>>}

\* the frame of a call at entry: parameters, and locals not yet assigned
CallFrame(label, msgs) ==
    [pc |-> "Validating", model |-> label, messages |-> msgs, payload |-> None,
     posts |-> <<>>, task_id |-> None, gets |-> <<>>, raised |-> None,
     result |-> None]

\* the variables of the single call, unused here
single == <<pc, model, messages, payload, posts, task_id, gets, raised, result, valid>>

InitConc ==
    /\ self \in {GPTClient(t) : t \in Timeouts}
    /\ pc = "Idle"
    /\ model = "GPT-4"
    /\ messages = <<>>
    /\ payload = None
    /\ posts = <<>>
    /\ task_id = None
    /\ gets = <<>>
    /\ raised = None
    /\ result = None
    /\ valid = None
    /\ calls \in [CallIds -> {CallFrame(l, m) : l \in ConcLabels, m \in ConcMessages}]
    /\ tasks = [t \in TaskIds |-> "absent"]

\* the identifier the service gives the next task it creates
fresh_id == IF tasks["t1"] = "absent" THEN "t1" ELSE "t2"

\* the text the service generates for a task
TextOf(t) == IF t = "t1" THEN "Hello!" ELSE "Hi there"

\* what requests.post can produce here: a timeout, a refusal, or a task
ConcPostExchanges ==
    {Exchange(Some("requests.Timeout"), 0, NotJSON),
     Exchange(None, 500, Body("object", Some("quota exceeded"), None, None, None)),
     Exchange(None, 200, Body("object", None, Some(fresh_id), None, None))}

\* the service's response to GET <base>/task/<id>
task_reply(id) ==
    IF IsNone(id) \/ Val(id) \notin TaskIds THEN Exchange(None, 404, NotJSON)
    ELSE CASE tasks[Val(id)] = "absent" -> Exchange(None, 404, NotJSON)
           [] tasks[Val(id)] = "pending" ->
                Exchange(None, 200, Body("object", None, None, Some("pending"), None))
           [] tasks[Val(id)] = "completed" ->
                Exchange(None, 200, Body("object", None, None, Some("completed"),
                                         Some(TextOf(Val(id)))))
           [] tasks[Val(id)] = "error" ->
                Exchange(None, 200, Body("object", None, None, Some("error"), None))

\* what requests.get can produce here: a connection error, or the response
ConcGetExchanges(id) ==
    {Exchange(Some("requests.ConnectionError"), 0, NotJSON), task_reply(id)}

\* (a variant that keeps the task id on the instance, where the call that
\* submitted last overwrites it: here the highest call that has submitted)
poll_target_shared(c) ==
    LET S == {d \in CallIds : calls[d].pc = "Polling"}
    IN  calls[CHOOSE d \in S : \A e \in S : e <= d].task_id

\* lines 211-212: the task id polled is the call's own local task_id
poll_target(c) == calls[c].task_id

\* lines 194-198 in call c
CValidate(c) ==
    /\ calls[c].pc = "Validating"
    /\ LET r == calls[c]
           o == validate_outcome(r.model)
       IN calls' = [calls EXCEPT ![c] =
              [r EXCEPT !.pc = o.pc, !.raised = o.raised,
                        !.payload = IF o.pc = "Submitting"
                                    THEN Some(build_payload(r.messages, r.model))
                                    ELSE None,
                        !.messages = messages_after_payload(r.messages)]]
    /\ UNCHANGED <<tasks, self, single>>

\* lines 200-211 in call c
CSubmit(c) ==
    /\ calls[c].pc = "Submitting"
    /\ \E x \in ConcPostExchanges :
        LET r == calls[c]
            o == post_outcome(x, TRUE)
        IN
        /\ calls' = [calls EXCEPT ![c] =
              [r EXCEPT !.pc = o.pc, !.raised = o.raised, !.task_id = o.task_id,
                        !.posts = Append(r.posts,
                            [url |-> submit_url, data |-> Val(r.payload),
                             timeout |-> self.timeout, error |-> x.error,
                             status_code |-> x.status_code, body |-> x.body])]]
        /\ tasks' = IF IsNone(x.error) /\ x.status_code = 200
                    THEN [tasks EXCEPT ![Val(x.body.id)] = "pending"]
                    ELSE tasks
    /\ UNCHANGED <<self, single>>

\* lines 163-177 and 214-217 in call c: one status query
CPoll(c) ==
    /\ calls[c].pc = "Polling"
    /\ Len(calls[c].gets) < MaxPolls
    /\ \E x \in ConcGetExchanges(poll_target(c)) :
        LET r == calls[c]
            o == poll_outcome(poll_target(c), x, TRUE)
        IN calls' = [calls EXCEPT ![c] =
              [r EXCEPT !.pc = o.pc, !.raised = o.raised, !.result = o.result,
                        !.gets = Append(r.gets,
                            [url |-> task_url(poll_target(c)), task |-> poll_target(c),
                             error |-> x.error, status_code |-> x.status_code,
                             body |-> x.body])]]
    /\ UNCHANGED <<tasks, self, single>>

\* the service completes or fails a pending task
RemoteProgress(t) ==
    /\ tasks[t] = "pending"
    /\ \E st \in {"completed", "error"} : tasks' = [tasks EXCEPT ![t] = st]
    /\ UNCHANGED <<calls, self, single>>

NextConc ==
    \/ \E c \in CallIds : CValidate(c)
    \/ \E c \in CallIds : CSubmit(c)
    \/ \E c \in CallIds : CPoll(c)
    \/ \E t \in TaskIds : RemoteProgress(t)

SpecConc == InitConc /\ [][NextConc]_vars

\* lines 163-177 run alone on the replies gs, from the outcome o so far
RECURSIVE poll_alone(_, _, _)
poll_alone(id, gs, o) ==
    IF gs = <<>> \/ o.pc # "Polling" THEN o
    ELSE poll_alone(id, Tail(gs), poll_outcome(id, Head(gs), TRUE))

\* generate_response (lines 194-220) run alone, start to end, on the
\* parameters of frame r and the exchanges recorded in it
run_alone(r) ==
    LET v == validate_outcome(r.model) IN
    IF v.pc = "Failed" \/ r.posts = <<>> THEN v
    ELSE LET p == post_outcome(r.posts[1], TRUE) IN
         IF p.pc = "Failed" THEN p ELSE poll_alone(p.task_id, r.gets, p)

-----------------------------------------------------------------------------
(* Properties.                                                             *)

LastGet == gets[Len(gets)]

\* the exchange is a 200 response whose body is a JSON object
IsStatusReply(g) == IsNone(g.error) /\ g.status_code = 200 /\ g.body.json = "object"

\* a response arrived and its HTTP status is not a success status (2xx)
IsHttpFailure(g) == IsNone(g.error) /\ ~(g.status_code \in 200..299)

Contains(text, part) == \E i \in 1..Len(text) : text[i] = part

\* C1: a value is returned only when the last status reply had status
\* "completed"; when the poll loop ends on any other status the call raises
\* an error and returns nothing.
C1_ReturnOnlyOnCompleted ==
    /\ pc = "Done" =>
          Len(gets) > 0 /\ IsStatusReply(LastGet) /\ LastGet.body.status = Some("completed")
    /\ (/\ Len(gets) > 0
        /\ IsStatusReply(LastGet)
        /\ LastGet.body.status \notin {Some("completed"), Some("pending")})
          => (pc = "Failed" /\ ~IsNone(raised) /\ IsNone(result))

\* C2: for every label that is not a key of available_models the call fails
\* with ModelNotFoundError, and every key of available_models appears in
\* the error message.
C2_InvalidLabelFails ==
    (pc # "Validating" /\ ~(\E i \in 1..Len(ModelTable) : ModelTable[i][1] = model))
        => /\ pc = "Failed"
           /\ ~IsNone(raised)
           /\ Val(raised).type = "ModelNotFoundError"
           /\ \A i \in 1..Len(ModelTable) : Contains(Val(raised).text, ModelTable[i][1])
           /\ posts = <<>>

C2_Witness ==
    pc = "Failed" /\ model = "gpt-4" /\ ~IsNone(raised)
        /\ Val(raised).type = "ModelNotFoundError"

\* C3: for every label of the registry, the "model" field of the payload
\* sent by the submission POST is the identifier the table maps the label
\* to, and is not the label.
C3_PayloadModelIsProviderId ==
    \A k \in 1..Len(posts) :
        /\ \E i \in 1..Len(ModelTable) :
              ModelTable[i] = <<model, posts[k].data.model>>
        /\ posts[k].data.model # model

C3_Witness ==
    Len(posts) = 1 /\ model = "ChatGPT" /\ posts[1].data.model = "chatgpt"

\* C4: a non-success HTTP status of the submission response makes the call
\* fail with an APIError whose description is "Too Many Requests" for 429,
\* "Bad Request" for 400, "Internal Server Error" for 500 and "Unexpected
\* Error" for any other non-success code.
C4_SubmitErrorIsMappedAPIError ==
    (Len(posts) = 1 /\ IsHttpFailure(posts[1]))
        => /\ pc = "Failed"
           /\ ~IsNone(raised)
           /\ Val(raised).type = "APIError"
           /\ Val(raised).description =
                 (IF posts[1].status_code = 429 THEN "Too Many Requests"
                  ELSE IF posts[1].status_code = 400 THEN "Bad Request"
                  ELSE IF posts[1].status_code = 500 THEN "Internal Server Error"
                  ELSE "Unexpected Error")

C6_PendingThenCompleted ==
    /\ \A i \in 1..(Len(gets) - 1) :
          IsStatusReply(gets[i]) /\ gets[i].body.status = Some("pending")
    /\ (Len(gets) > 0 /\ IsStatusReply(LastGet) /\ LastGet.body.status = Some("pending"))
          => (pc = "Polling" /\ IsNone(raised) /\ IsNone(result))
    /\ (/\ Len(gets) > 0 /\ IsStatusReply(LastGet)
        /\ LastGet.body.status = Some("completed") /\ ~IsNone(LastGet.body.gpt))
          => (pc = "Done" /\ result = Some(LastGet.body.gpt) /\ IsNone(raised))

C6_Witness ==
    /\ pc = "Done" /\ Len(gets) = 3
    /\ gets[1].body.status = Some("pending") /\ gets[2].body.status = Some("pending")
    /\ gets[3].body.status = Some("completed")
    /\ result = Some(Some("Hello!"))

\* C7: a status reply "error" makes the call fail with a plain ChatGPTError
\* (not an APIError, not a ModelNotFoundError) whose message names
\* TaskStatus.ERROR; no text is returned.
C7_ErrorStatusFails ==
    (Len(gets) > 0 /\ IsStatusReply(LastGet) /\ LastGet.body.status = Some("error"))
        => /\ pc = "Failed"
           /\ ~IsNone(raised)
           /\ Val(raised).type = "ChatGPTError"
           /\ Val(raised).text = <<"Task failed with status: ", "TaskStatus.", "ERROR">>
           /\ IsNone(result)

C7_Witness ==
    /\ Len(gets) = 2 /\ IsStatusReply(LastGet) /\ LastGet.body.status = Some("error")
    /\ pc = "Failed"

\* C8: every status of a successful status reply that is neither "pending"
\* nor "completed" (a known one, an unrecognized one, an absent one) makes
\* the call fail with the generic task failure, a plain ChatGPTError whose
\* message starts "Task failed with status: ".
C8_OtherStatusIsTaskFailure ==
    (/\ Len(gets) > 0
     /\ IsStatusReply(LastGet)
     /\ LastGet.body.status \notin {Some("completed"), Some("pending")})
        => /\ pc = "Failed"
           /\ ~IsNone(raised)
           /\ Val(raised).type = "ChatGPTError"
           /\ Val(raised).text[1] = "Task failed with status: "

\* C9: a timeout or transport failure of the submission POST makes the
\* call fail with a plain ChatGPTError whose message is "Request failed: "
\* followed by the text of the cause; no status query is issued and nothing
\* is returned.
C9_TransportFailureAtSubmission ==
    (Len(posts) = 1 /\ ~IsNone(posts[1].error))
        => /\ pc = "Failed"
           /\ ~IsNone(raised)
           /\ Val(raised).type = "ChatGPTError"
           /\ Val(raised).text =
                 <<"Request failed: ",
                   IF posts[1].error = Some("requests.Timeout")
                   THEN "Read timed out." ELSE "Connection refused">>
           /\ gets = <<>>
           /\ IsNone(result)

C9_Witness ==
    Len(posts) = 1 /\ posts[1].error = Some("requests.Timeout") /\ pc = "Failed"

\* C10: every failing run ends with an error of the base kind ChatGPTError
\* (ModelNotFoundError, APIError or ChatGPTError itself): no other
\* exception reaches the caller.
C10_OnlyChatGPTErrorsEscape ==
    ~IsNone(raised) =>
        Val(raised).type \in {"ChatGPTError", "APIError", "ModelNotFoundError"}

\* the label is a key of the table __init__ builds
IsKey(label) == \E i \in 1..Len(ModelTable) : ModelTable[i][1] = label

\* the exchange is a 200 response with a JSON object whose status is "pending"
IsPendingReply(g) == IsStatusReply(g) /\ g.body.status = Some("pending")

\* C11: no retry: at most one submission POST is issued in a run, and once
\* a step has failed (invalid label, transport failure, non-success HTTP
\* status, terminal status) no further request is issued: the failed request
\* is the last one, and a finished call takes no further step.
C11_NoRetry ==
    /\ Len(posts) <= 1
    /\ (pc # "Validating" /\ ~IsKey(model)) => (posts = <<>> /\ gets = <<>>)
    /\ (Len(posts) = 1 /\ (~IsNone(posts[1].error) \/ posts[1].status_code # 200))
          => (gets = <<>> /\ pc = "Failed")
    /\ \A i \in 1..(Len(gets) - 1) : IsPendingReply(gets[i])
    /\ (Len(gets) > 0 /\ ~IsPendingReply(LastGet)) => pc \in {"Done", "Failed"}
    /\ pc \in {"Done", "Failed"} => ~ENABLED (Submit \/ Poll)

C11_Witness ==
    /\ pc = "Failed" /\ Len(posts) = 1 /\ Len(gets) = 2
    /\ IsNone(LastGet.error) /\ LastGet.status_code = 500

\* C12: whenever the call reaches Done the value returned is a text, the
\* generated-text field ("gpt") of the completed reply, and never None.
C12_DoneReturnsText ==
    pc = "Done" =>
        /\ \E t \in Texts : result = Some(Some(t))
        /\ result = Some(LastGet.body.gpt)

\* C13: the "messages" list of the submission payload has the length of
\* the input, and its i-th element has the role and the content of the i-th
\* input message.
C13_PayloadKeepsMessages ==
    \A k \in 1..Len(posts) :
        /\ Len(posts[k].data.messages) = Len(messages)
        /\ \A i \in 1..Len(messages) :
              /\ posts[k].data.messages[i].role = messages[i].role
              /\ posts[k].data.messages[i].content = messages[i].content
              /\ DOMAIN posts[k].data.messages[i] = {"role", "content"}

C13_Witness ==
    /\ Len(posts) = 1
    /\ messages = <<[role |-> "system", content |-> "You are a helpful assistant."],
                    [role |-> "user", content |-> "Hi"]>>
    /\ posts[1].data.messages[2].content = "Hi"

\* C16: the steps of a request are ordered Validating -> Submitting ->
\* Polling -> Done | Failed: a POST is issued only for a label that passed
\* validation, a status query only after the POST returned a success status,
\* and Done is reached only from Polling.
C16_StepOrder ==
    /\ [](posts # <<>> => IsKey(model))
    /\ [](gets # <<>> =>
            (Len(posts) = 1 /\ IsNone(posts[1].error) /\ posts[1].status_code \in 200..299))
    /\ [](pc = "Done" => gets # <<>>)
    /\ [][/\ pc = "Validating" => pc' \in {"Submitting", "Failed"}
          /\ pc = "Submitting" => pc' \in {"Polling", "Failed"}
          /\ pc = "Polling" => pc' \in {"Polling", "Done", "Failed"}
          /\ pc \in {"Done", "Failed"} => pc' = pc
          /\ pc' = "Done" => pc = "Polling"]_vars

C16_Witness ==
    pc = "Done" /\ Len(posts) = 1 /\ Len(gets) = 2 /\ IsKey(model)

\* C18: the APIError raised for a non-success submission response carries
\* the response's HTTP status code and the "message" field of its body, the
\* message being "Unknown error" when the body has no such field.
C18_SubmitAPIErrorCarriesMessage ==
    (/\ Len(posts) = 1 /\ IsNone(posts[1].error) /\ posts[1].status_code # 200
     /\ ~IsNone(raised) /\ Val(raised).type = "APIError")
        => /\ Val(raised).status_code = posts[1].status_code
           /\ Val(raised).message =
                 (IF IsNone(posts[1].body.message) THEN "Unknown error"
                  ELSE Val(posts[1].body.message))
           /\ posts[1].body.json = "object"

C18_Witness ==
    /\ Len(posts) = 1 /\ posts[1].status_code = 429
    /\ posts[1].body.json = "object" /\ IsNone(posts[1].body.message)
    /\ ~IsNone(raised) /\ Val(raised).message = "Unknown error"

\* C20: every status query targets the task identifier given in the "id"
\* field of the call's own submission response: the same identifier for
\* every poll, and never one the service did not return.
C20_PollsTargetReturnedId ==
    \A i \in 1..Len(gets) :
        /\ Len(posts) = 1
        /\ ~IsNone(posts[1].body.id)
        /\ gets[i].url = <<"https://nexra.aryahcr.cc/api/chat", "/task/",
                           Val(posts[1].body.id)>>

\* C14: validate_model(label) returns true exactly when label is a key of
\* the table, and a call of it (the steps that leave the caller idle)
\* issues no request and changes no state of the client or the caller.
C14_ValidateModelIffKey ==
    /\ [](~IsNone(valid) => (Val(valid).value <=> IsKey(Val(valid).name)))
    /\ [][(pc = "Idle" /\ pc' = "Idle")
            => (/\ posts' = posts /\ gets' = gets /\ self' = self
                /\ messages' = messages /\ model' = model
                /\ raised' = raised /\ result' = result)]_vars

C14_Witness ==
    /\ pc = "Idle" /\ model = "GPT-4" /\ ~IsNone(result)
    /\ valid = Some([name |-> "gpt-4", value |-> FALSE])

\* C19: whatever calls were made and however they ended, the client's
\* table, base URL and timeout are the ones __init__ set, and no step of a
\* call changes the caller's message sequence.
C19_CallsChangeNothing ==
    /\ [](/\ self.available_models = ModelTable
          /\ self.base_url = "https://nexra.aryahcr.cc/api/chat"
          /\ self.timeout = 30)
    /\ [][self' = self]_vars
    /\ [][(pc = "Idle" /\ pc' = "Validating") \/ messages' = messages]_vars

C19_Witness ==
    /\ pc = "Idle" /\ ~IsNone(raised) /\ Val(raised).type = "APIError"
    /\ Len(messages) = 2
    /\ valid = Some([name |-> "Ada", value |-> TRUE])

\* C17: if every network call returns and the service eventually answers
\* a status query with something other than a 200 "pending" reply, the call
\* eventually reaches Done or Failed; and while the replies are "pending"
\* the loop goes on without a bound: a polling call can always issue
\* another status query, however many it has issued.
C17_EventuallyEnds ==
    /\ <>(pc \in {"Done", "Failed"})
    /\ [](pc = "Polling" => ENABLED PollPending)
    /\ []((Len(gets) = MaxPolls /\ \A i \in 1..Len(gets) : IsPendingReply(gets[i]))
            => pc = "Polling")

C17_Witness ==
    /\ pc = "Done"
    /\ Len(gets) = MaxPolls
    /\ \A i \in 1..(Len(gets) - 1) : IsPendingReply(gets[i])

\* C15: concurrent calls on one instance are independent: under every
\* interleaving, every reply a call reads is the service's reply about the
\* call's own task, the outcome of a finished call is the outcome of
\* running it alone on the replies for its own task (so a returned text is
\* the text of its own task), and no step changes the instance or the
\* frame of more than one call.
C15_ConcurrentCallsIndependent ==
    /\ [](\A c \in CallIds :
            LET r == calls[c]
                a == run_alone(r)
            IN  /\ \A i \in 1..Len(r.gets) :
                      Len(r.posts) = 1 /\ r.gets[i].task = r.posts[1].body.id
                /\ r.pc \in {"Done", "Failed"} =>
                      (r.pc = a.pc /\ r.raised = a.raised /\ r.result = a.result)
                /\ r.pc = "Done" =>
                      r.result = Some(Some(TextOf(Val(r.posts[1].body.id)))))
    /\ [][/\ self' = self
          /\ \E c \in CallIds : \A d \in CallIds \ {c} : calls'[d] = calls[d]]_vars

C15_Witness ==
    /\ calls[1].pc = "Done" /\ calls[2].pc = "Done"
    /\ calls[1].result = Some(Some("Hi there")) /\ calls[2].result = Some(Some("Hello!"))
    /\ Len(calls[1].gets) = 3 /\ Len(calls[2].gets) = 2

=============================================================================
